---- MODULE Spec2Model ----
(***************************************************************************)
(* A model of src/ExtractGQL.ts: the ExtractGQL class of persistgraphql.   *)
(*                                                                         *)
(* A GraphQL document is a sequence of definitions.  A definition is a     *)
(* record [kind, name, spreads]: an operation or a fragment, its name and  *)
(* the fragment names its selection set spreads.  Source text is a         *)
(* sequence of tokens <<kind, name, spreads>>, with whitespace tokens      *)
(* between definitions; parse and print convert between the two.           *)
(***************************************************************************)
EXTENDS Integers, Sequences, FiniteSets, TLC

VARIABLES
    queryId,    \* ExtractGQL.queryId of each extractor object
    hashType,   \* ExtractGQL.hashType of each extractor object
    issued,     \* history: per extractor, the [key, id] of every getQueryId call
    runs,       \* history: per extractor, the [op, in, out, threw] of every call
    keyed,      \* history: the documents keyed by the most recent call
    root,       \* ExtractGQL.inputFilePath: the node extract() starts from
    phase,      \* per node: where its readInputPath call stands
    promise,    \* per node: the state of the promise readInputPath returned
    value,      \* per node: the string that promise resolved to
    failed,     \* the nodes whose stat, listing or read failed
    settled,    \* history: the nodes in the order their promises settled
    crashed,    \* an exception left a callback uncaught: the process is gone
    proc,       \* the state of the promise processInputPath returned
    procValue,  \* the OutputMap that promise resolved to
    wrPhase,    \* where the writeOutputMap call stands
    wrPromise,  \* the state of the promise writeOutputMap returned
    outFile,    \* the contents written to outputFilePath, if any
    ranAfterReject, \* history: the steps run after their call had rejected
    redisUrl,   \* ExtractGQL.redisUrl; "" when none is configured
    pushPhase,  \* where the pushToRedis call stands
    pushPromise,\* the state of the promise pushToRedis returned
    mapToPush,  \* pushToRedis: the inverted OutputMap
    pendingSets,\* the identifiers whose set has not been answered
    failedSets, \* the identifiers whose set failed
    store,      \* the contents of the key-value sink
    setCount,   \* history: the number of set commands issued
    reported,   \* "All queries pushed" has been logged
    quit,       \* client.quit() has been called
    caller,     \* who started the extraction: "main", "api", or "none" yet
    requested,  \* the strategy the caller asked for; "" when none
    exited      \* main has called process.exit(1)

extractorVars == <<queryId, hashType, issued, runs, keyed>>
ioVars == <<root, phase, promise, value, failed, settled, crashed, ranAfterReject, proc, procValue,
            wrPhase, wrPromise, outFile,
            redisUrl, pushPhase, pushPromise, mapToPush, pendingSets, failedSets, store,
            setCount, reported, quit, caller, requested, exited>>
vars == <<extractorVars, ioVars>>

(***************************************************************************)
(* Bounds of the model.                                                    *)
(***************************************************************************)
MaxDefs == 3        \* definitions in an input document
MaxEncounters == 5  \* getQueryId calls per extractor in SpecSeq
MaxRuns == 2        \* createOutputMapFromString calls per extractor in SpecRuns
DigestSpace == 64   \* number of distinct digests of the scaled-down hash

Extractors == {1, 2}

\* line 46: the identifier strategies
HASH_TYPES == {"md5", "sha1", "sha256", "sequential", "uuid"}

\* the outcomes of crypto.randomBytes, scaled down
RandomIds == {0, 1}

(***************************************************************************)
(* Documents.                                                              *)
(***************************************************************************)
\* Fragment names in ascending order.
FragNames == <<"F1", "F2", "F3">>
FragNameSet == {FragNames[i] : i \in 1..Len(FragNames)}
OpNames == {"Q1", "Q2"}
SeqOpNames == {"Q1", "Q2", "Q3"}

\* a selection set spreads no fragment or one
SpreadSets == {{}} \cup {{f} : f \in FragNameSet}

OpDef(n, s) == [kind |-> "op", name |-> n, spreads |-> s]
FragDef(n, s) == [kind |-> "frag", name |-> n, spreads |-> s]

Defs == {OpDef(n, s) : n \in OpNames, s \in SpreadSets}
            \cup {FragDef(n, s) : n \in FragNameSet, s \in SpreadSets}

Docs == UNION {[1..n -> Defs] : n \in 1..MaxDefs}

IsFragmentDefinition(definition) == definition.kind = "frag"
IsOperationDefinition(definition) == definition.kind = "op"

GetOperationDefinitions(document) == SelectSeq(document, IsOperationDefinition)

NameRank(name) == CHOOSE i \in 1..Len(FragNames) : FragNames[i] = name

(***************************************************************************)
(* parse and print                                                         *)
(***************************************************************************)
WS == <<"ws", "", {}>>
IsDefinitionToken(tok) == tok[1] # "ws"

PrintDefinition(definition) == <<definition.kind, definition.name, definition.spreads>>
PrintDocument(document) == [i \in 1..Len(document) |-> PrintDefinition(document[i])]

ParseDefinition(tok) == [kind |-> tok[1], name |-> tok[2], spreads |-> tok[3]]
\* parse throws a syntax error on a text without any definition
ParseThrows(docString) == SelectSeq(docString, IsDefinitionToken) = <<>>
Parse(docString) ==
    LET toks == SelectSeq(docString, IsDefinitionToken)
    IN  [i \in 1..Len(toks) |-> ParseDefinition(toks[i])]

(***************************************************************************)
(* Fragment resolution.                                                    *)
(***************************************************************************)
HasDefinition(document, name) ==
    \E i \in 1..Len(document) :
        IsFragmentDefinition(document[i]) /\ document[i].name = name

FirstDefinition(document, name) ==
    document[CHOOSE i \in 1..Len(document) :
        /\ IsFragmentDefinition(document[i]) /\ document[i].name = name
        /\ \A j \in 1..(i - 1) :
              ~(IsFragmentDefinition(document[j]) /\ document[j].name = name)]

\* the names a fragment's selection set spreads; none for an undefined name
SpreadsOf(document, name) ==
    IF HasDefinition(document, name)
    THEN FirstDefinition(document, name).spreads
    ELSE {}

\* the fixpoint pass: scan one fragment of "required" that is not yet visited
RECURSIVE FixPass(_, _, _, _)
FixPass(document, required, visited, passes) ==
    IF required \ visited = {}
    THEN [names |-> required, passes |-> passes]
    ELSE LET f == CHOOSE x \in required \ visited : TRUE
         IN  FixPass(document, required \cup SpreadsOf(document, f),
                     visited \cup {f}, passes + 1)

GetFragmentNames(selectionSet, document) == FixPass(document, selectionSet, {}, 0)

DefinitionExistsNever(carry, name) == FALSE

\* lines 328-332
DefinitionExists(carry, name) ==
    \E i \in 1..Len(carry) : carry[i].name = name

IsRequiredAnyFragment(queryFragmentNames, definition) ==
    IsFragmentDefinition(definition)

\* lines 324-327
IsRequired(queryFragmentNames, definition) ==
    IsFragmentDefinition(definition) /\ definition.name \in queryFragmentNames

\* lines 317-341
ReduceQueryDefinitions(carry, definition, queryFragmentNames) ==
    IF IsRequired(queryFragmentNames, definition)
          /\ ~DefinitionExists(carry, definition.name)
    THEN Append(carry, definition)
    ELSE carry

RECURSIVE Reduce(_, _, _, _)
Reduce(definitions, i, carry, queryFragmentNames) ==
    IF i > Len(definitions)
    THEN carry
    ELSE Reduce(definitions, i + 1,
                ReduceQueryDefinitions(carry, definitions[i], queryFragmentNames),
                queryFragmentNames)

RECURSIVE InsertByName(_, _)
InsertByName(sorted, definition) ==
    IF sorted = <<>>
    THEN <<definition>>
    ELSE IF NameRank(definition.name) < NameRank(Head(sorted).name)
         THEN <<definition>> \o sorted
         ELSE <<Head(sorted)>> \o InsertByName(Tail(sorted), definition)

RECURSIVE SortedPrefix(_, _)
SortedPrefix(definitions, n) ==
    IF n = 0 THEN <<>>
    ELSE InsertByName(SortedPrefix(definitions, n - 1), definitions[n])

SortSkipped(definitions) == definitions

\* line 345: .sort(sortFragmentsByName)
SortFragmentsByName(definitions) == SortedPrefix(definitions, Len(definitions))

\* lines 304-348
GetQueryFragments(document, queryDefinition) ==
    LET queryFragmentNames == GetFragmentNames(queryDefinition.spreads, document).names
    IN  SortFragmentsByName(Reduce(document, 1, <<>>, queryFragmentNames))

(***************************************************************************)
(* Keys and identifiers.                                                   *)
(***************************************************************************)
\* the constructor's default: queryTransformers = []
ApplyQueryTransformers(document) == document

GetQueryDocumentKey(document) == PrintDocument(ApplyQueryTransformers(document))

KindCode(kind) == CASE kind = "op" -> 1 [] kind = "frag" -> 2 [] OTHER -> 0

AllNames == <<"Q1", "Q2", "Q3", "F1", "F2", "F3">>
NameCode(name) ==
    IF \E i \in 1..Len(AllNames) : AllNames[i] = name
    THEN CHOOSE i \in 1..Len(AllNames) : AllNames[i] = name
    ELSE 0

RECURSIVE SpreadCode(_)
SpreadCode(spreads) ==
    IF spreads = {} THEN 0
    ELSE LET f == CHOOSE x \in spreads : TRUE
         IN  NameRank(f) + 4 * SpreadCode(spreads \ {f})

TokenCode(tok) == KindCode(tok[1]) + 3 * NameCode(tok[2]) + 21 * SpreadCode(tok[3])

RECURSIVE KeyCode(_, _)
KeyCode(documentQuery, n) ==
    IF n = 0 THEN 7
    ELSE (31 * KeyCode(documentQuery, n - 1) + TokenCode(documentQuery[n])) % DigestSpace

\* crypto.createHash(alg).update(documentQuery, "utf8").digest("hex")
Digest(alg, documentQuery) == <<alg, KeyCode(documentQuery, Len(documentQuery))>>

\* lines 369-380: the random bytes, formatted
Uuid(randomBytes) == <<"uuid", randomBytes>>

SequentialIdNotStored(counter) == [id |-> counter + 1, queryId |-> counter]

SequentialIdBeforeIncrement(counter) == [id |-> counter, queryId |-> counter + 1]

\* lines 383-384
SequentialId(counter) == [id |-> counter + 1, queryId |-> counter + 1]

GetQueryIdSaltedDigest(strategy, counter, documentQuery, randomBytes) ==
    CASE strategy \in {"md5", "sha1", "sha256"} ->
            [id |-> <<strategy, KeyCode(documentQuery, Len(documentQuery)) + counter>>,
             queryId |-> counter + 1]
      [] strategy = "uuid" ->
            [id |-> Uuid(randomBytes), queryId |-> counter]
      [] OTHER -> SequentialId(counter)

GetQueryIdDefaultBranch(strategy, counter, documentQuery, randomBytes) ==
    SequentialId(counter)

\* lines 351-386
GetQueryId(strategy, counter, documentQuery, randomBytes) ==
    CASE strategy \in {"md5", "sha1", "sha256"} ->
            [id |-> Digest(strategy, documentQuery), queryId |-> counter]
      [] strategy = "uuid" ->
            [id |-> Uuid(randomBytes), queryId |-> counter]
      [] OTHER -> SequentialId(counter)

(***************************************************************************)
(* OutputMaps.                                                             *)
(***************************************************************************)
EmptyMap == [k \in {} |-> 0]
MapPut(m, k, v) == [x \in DOMAIN m \cup {k} |-> IF x = k THEN v ELSE m[x]]
\* _.merge({}, a, b): the entries of b override those of a
Merge(a, b) == [x \in DOMAIN a \cup DOMAIN b |-> IF x \in DOMAIN b THEN b[x] ELSE a[x]]

Identifiers(outputMap) == {outputMap[k] : k \in DOMAIN outputMap}

\* line 410: _.invert(outputMap), identifier -> key.  When several keys carry
\* one identifier, the key the object lists last wins; the order of the keys
\* is not modelled, so any of them may.
Inversions(outputMap) ==
    {f \in [Identifiers(outputMap) -> DOMAIN outputMap] :
        \A id \in Identifiers(outputMap) : outputMap[f[id]] = id}

(***************************************************************************)
(* createMapFromDocument and createOutputMapFromString, as functions of    *)
(* the extractor's state.  "acc" carries the counter, the map built so     *)
(* far, the histories and the random bytes not yet drawn.                  *)
(***************************************************************************)
StartAcc(counter, rnd) ==
    [queryId |-> counter, result |-> EmptyMap, issued |-> <<>>, keyed |-> <<>>,
     rnd |-> rnd]

\* lines 181-191: the body of the forEach
MapDefinition(strategy, acc, transformedDocument, transformedDefinition) ==
    LET names == GetFragmentNames(transformedDefinition.spreads, transformedDocument)
        \* line 186: unshift the operation onto its fragments
        transformedQueryWithFragments ==
            <<transformedDefinition>>
                \o GetQueryFragments(transformedDocument, transformedDefinition)
        docQueryKey == GetQueryDocumentKey(transformedQueryWithFragments)
        got == GetQueryId(strategy, acc.queryId, docQueryKey, Head(acc.rnd))
    IN  [queryId |-> got.queryId,
         result |-> MapPut(acc.result, docQueryKey, got.id),
         issued |-> Append(acc.issued, [key |-> docQueryKey, id |-> got.id]),
         keyed |-> Append(acc.keyed,
                          [op |-> transformedDefinition,
                           from |-> transformedDocument,
                           doc |-> transformedQueryWithFragments,
                           passes |-> names.passes]),
         rnd |-> Tail(acc.rnd)]

RECURSIVE MapDefinitions(_, _, _, _, _)
MapDefinitions(strategy, acc, transformedDocument, queryDefinitions, i) ==
    IF i > Len(queryDefinitions)
    THEN acc
    ELSE MapDefinitions(strategy,
                        MapDefinition(strategy, acc, transformedDocument,
                                      queryDefinitions[i]),
                        transformedDocument, queryDefinitions, i + 1)

\* lines 177-193: starts from an empty result, keeps the counter
CreateMap(strategy, acc, document) ==
    LET transformedDocument == ApplyQueryTransformers(document)
        queryDefinitions == GetOperationDefinitions(transformedDocument)
    IN  MapDefinitions(strategy, [acc EXCEPT !.result = EmptyMap],
                       transformedDocument, queryDefinitions, 1)

RECURSIVE KeepIndexes(_, _, _)
KeepIndexes(document, keep, i) ==
    IF i > Len(document) THEN <<>>
    ELSE (IF i \in keep THEN <<document[i]>> ELSE <<>>)
            \o KeepIndexes(document, keep, i + 1)

\* graphql's separateOperations: one document per operation name, in the order
\* the names first occur; a later operation of the same name replaces the
\* earlier one; every document keeps the fragment definitions
SeparateOperations(doc) ==
    LET ops == {i \in 1..Len(doc) : IsOperationDefinition(doc[i])}
        firsts == {i \in ops : \A j \in ops : doc[j].name = doc[i].name => i <= j}
        last(i) == CHOOSE k \in ops :
                      /\ doc[k].name = doc[i].name
                      /\ \A j \in ops : doc[j].name = doc[i].name => j <= k
        separated(i) ==
            KeepIndexes(doc, {last(i)} \cup ((1..Len(doc)) \ ops), 1)
        firstSeq == KeepIndexes([i \in 1..Len(doc) |-> i], firsts, 1)
    IN  [n \in 1..Len(firstSeq) |-> separated(firstSeq[n])]

RECURSIVE MapDocuments(_, _, _, _, _)
MapDocuments(strategy, acc, merged, docMap, i) ==
    IF i > Len(docMap)
    THEN [acc EXCEPT !.result = merged]
    ELSE LET next == CreateMap(strategy, acc, docMap[i])
         IN  MapDocuments(strategy, next, Merge(merged, next.result), docMap, i + 1)

\* lines 212-222, for a docString that parses
CreateOutputMap(strategy, acc, docString) ==
    MapDocuments(strategy, acc, EmptyMap, SeparateOperations(Parse(docString)), 1)

\* the number of getQueryId calls a call makes
NumOps(document) == Len(GetOperationDefinitions(document))
NumDocs(docString) ==
    IF ParseThrows(docString) THEN 0 ELSE Len(SeparateOperations(Parse(docString)))

\* the random bytes drawn by n getQueryId calls
RandomChoices(e, n) ==
    IF hashType[e] = "uuid"
    THEN [1..n -> RandomIds]
    ELSE {[i \in 1..n |-> 0]}

Record(e, op, in, acc, threw) ==
    /\ queryId' = [queryId EXCEPT ![e] = acc.queryId]
    /\ issued' = [issued EXCEPT ![e] = @ \o acc.issued]
    /\ keyed' = acc.keyed
    /\ runs' = [runs EXCEPT ![e] =
                   Append(@, [op |-> op, in |-> in, out |-> acc.result,
                              threw |-> threw])]

(***************************************************************************)
(* The input tree.  A node is a directory with a listing or a file with a  *)
(* name and contents; a name is the list of its pieces between dots.       *)
(*   1 queries/            2 queries/sub/        3 queries/a.graphql       *)
(*   4 queries/notes.txt   5 queries/sub/b.graphql                        *)
(*   6 queries/sub/c.graphql                        7 queries/graphql      *)
(***************************************************************************)
Nodes == 1..7
Listing == [n \in {1, 2} |-> IF n = 1 THEN <<2, 3, 4, 7>> ELSE <<5, 6>>]
IsDir(n) == n \in DOMAIN Listing
Children(n) == {Listing[n][i] : i \in 1..Len(Listing[n])}

BaseName ==
    [n \in Nodes |->
        CASE n = 1 -> <<"queries">>
          [] n = 2 -> <<"sub">>
          [] n = 3 -> <<"a", "graphql">>
          [] n = 4 -> <<"notes", "txt">>
          [] n = 5 -> <<"b", "graphql">>
          [] n = 6 -> <<"c", "graphql">>
          [] OTHER -> <<"graphql">>]

Content ==
    [n \in Nodes |->
        CASE n = 3 -> <<<<"op", "Q1", {"F1"}>>, WS>>
          [] n = 4 -> <<<<"op", "Q2", {}>>>>
          [] n = 5 -> <<<<"frag", "F1", {}>>, WS>>
          [] n = 6 -> <<<<"op", "Q2", {"F1"}>>>>
          [] n = 7 -> <<<<"frag", "F2", {}>>>>
          [] OTHER -> <<>>]

\* the constructor's default: extension = "graphql" (line 137)
Extension == "graphql"

GetFileExtensionLastPiece(pieces) == pieces[Len(pieces)]

\* lines 99-105
GetFileExtension(pieces) ==
    IF Len(pieces) <= 1 THEN "" ELSE pieces[Len(pieces)]

(***************************************************************************)
(* readInputPath, processInputPath, writeOutputMap and extract.            *)
(***************************************************************************)
\* an option that was not given: undefined
Absent == "undefined"

\* the values of the redisUrl option: none, or the address of a sink
RedisUrls == {"", "redis://sink"}

\* nothing has been started
InitIdle ==
    /\ root \in Nodes
    /\ phase = [n \in Nodes |-> "idle"]
    /\ promise = [n \in Nodes |-> "none"]
    /\ value = [n \in Nodes |-> <<>>]
    /\ failed = {}
    /\ settled = <<>>
    /\ crashed = FALSE
    /\ proc = "none"
    /\ procValue = EmptyMap
    /\ wrPhase = "none"
    /\ wrPromise = "none"
    /\ outFile = <<>>
    /\ ranAfterReject = {}
    /\ redisUrl \in RedisUrls
    /\ pushPhase = "none"
    /\ pushPromise = "none"
    /\ mapToPush = EmptyMap
    /\ pendingSets = {}
    /\ failedSets = {}
    /\ store = EmptyMap
    /\ setCount = 0
    /\ reported = FALSE
    /\ quit = FALSE
    /\ caller = "none"
    /\ requested = Absent
    /\ exited = FALSE

traversalVars == <<phase, promise, value, failed, settled>>
writeVars == <<wrPhase, wrPromise, outFile>>
sinkVars == <<redisUrl, pushPhase, pushPromise, mapToPush, pendingSets, failedSets, store,
              setCount, reported, quit>>
mainVars == <<caller, requested, exited>>

\* lines 438, 257-258, 269-270: processInputPath calls readInputPath on the input
\* path, which issues the stat
StartExtract ==
    /\ proc' = "pending"
    /\ phase' = [phase EXCEPT ![root] = "stat"]
    /\ promise' = [promise EXCEPT ![root] = "pending"]

\* lines 437-438, 257-258, 269-270: extract() calls processInputPath, which calls
\* readInputPath on the input path, which issues the stat
Extract ==
    /\ ~crashed
    /\ proc = "none"
    /\ StartExtract
    /\ UNCHANGED <<extractorVars, root, value, failed, settled, crashed, ranAfterReject, procValue,
                   writeVars>>
    /\ UNCHANGED <<sinkVars, mainVars>>

\* lines 270-274, 286-290, 229-249: the stat answers.  A directory is listed; a
\* file of the configured extension is read; any other file resolves to "".
StatDone(n) ==
    /\ ~crashed
    /\ phase[n] = "stat"
    /\ IF IsDir(n)
       THEN /\ phase' = [phase EXCEPT ![n] = "readdir"]
            /\ UNCHANGED <<promise, value, settled>>
       ELSE IF GetFileExtension(BaseName[n]) = Extension
            THEN /\ phase' = [phase EXCEPT ![n] = "read"]
                 /\ UNCHANGED <<promise, value, settled>>
            ELSE /\ phase' = [phase EXCEPT ![n] = "end"]
                 /\ promise' = [promise EXCEPT ![n] = "resolved"]
                 /\ value' = [value EXCEPT ![n] = <<>>]
                 /\ settled' = Append(settled, n)
    /\ UNCHANGED <<extractorVars, root, failed, crashed, ranAfterReject, proc, procValue, writeVars>>
    /\ UNCHANGED <<sinkVars, mainVars>>

\* lines 123-125, 270: the stat fails.  isDirectory rejects, and the then of line
\* 270 has no rejection handler: the promise of readInputPath is never settled.
StatFail(n) ==
    /\ ~crashed
    /\ phase[n] = "stat"
    /\ phase' = [phase EXCEPT ![n] = "end"]
    /\ failed' = failed \cup {n}
    /\ UNCHANGED <<extractorVars, root, promise, value, settled, crashed, ranAfterReject, proc,
                   procValue, writeVars>>
    /\ UNCHANGED <<sinkVars, mainVars>>

\* lines 274-284: the listing arrives; readInputPath is called on every item,
\* each call issuing its stat, and Promise.all waits for them
ReaddirDone(n) ==
    /\ ~crashed
    /\ phase[n] = "readdir"
    /\ phase' = [m \in Nodes |->
                    IF m = n THEN "all"
                    ELSE IF m \in Children(n) THEN "stat" ELSE phase[m]]
    /\ promise' = [m \in Nodes |-> IF m \in Children(n) THEN "pending" ELSE promise[m]]
    /\ UNCHANGED <<extractorVars, root, value, failed, settled, crashed, ranAfterReject, proc,
                   procValue, writeVars>>
    /\ UNCHANGED <<sinkVars, mainVars>>

\* lines 274-278: the listing fails.  reject(err) does not return, so items.map
\* is evaluated on undefined items and throws out of the callback.
ReaddirFail(n) ==
    /\ ~crashed
    /\ phase[n] = "readdir"
    /\ phase' = [phase EXCEPT ![n] = "end"]
    /\ promise' = [promise EXCEPT ![n] = "rejected"]
    /\ settled' = Append(settled, n)
    /\ failed' = failed \cup {n}
    /\ ranAfterReject' = ranAfterReject \cup {"items.map"}
    /\ crashed' = TRUE
    /\ UNCHANGED <<extractorVars, root, value, proc, procValue, writeVars>>
    /\ UNCHANGED <<sinkVars, mainVars>>

\* lines 110-115, 245, 288-289: the file is read
ReadDone(n) ==
    /\ ~crashed
    /\ phase[n] = "read"
    /\ phase' = [phase EXCEPT ![n] = "end"]
    /\ promise' = [promise EXCEPT ![n] = "resolved"]
    /\ value' = [value EXCEPT ![n] = Content[n]]
    /\ settled' = Append(settled, n)
    /\ UNCHANGED <<extractorVars, root, failed, crashed, ranAfterReject, proc, procValue, writeVars>>
    /\ UNCHANGED <<sinkVars, mainVars>>

\* lines 110-112, 291-295: the read fails
ReadFail(n) ==
    /\ ~crashed
    /\ phase[n] = "read"
    /\ phase' = [phase EXCEPT ![n] = "end"]
    /\ promise' = [promise EXCEPT ![n] = "rejected"]
    /\ settled' = Append(settled, n)
    /\ failed' = failed \cup {n}
    /\ UNCHANGED <<extractorVars, root, value, crashed, ranAfterReject, proc, procValue, writeVars>>
    /\ UNCHANGED <<sinkVars, mainVars>>

PlusSwapped(x, y) == y \o x

\* line 283: (x, y) => x + y
Plus(x, y) == x \o y

\* line 283: queryStrings.reduce((x, y) => x + y, "")
RECURSIVE ReduceStrings(_, _)
ReduceStrings(queryStrings, n) ==
    IF n = 0 THEN <<>>
    ELSE Plus(ReduceStrings(queryStrings, n - 1), queryStrings[n])

AllSettled(n) == \A c \in Children(n) : promise[c] \in {"resolved", "rejected"}

AnyResolved(n) == \E c \in Children(n) : promise[c] = "resolved"

\* line 282: Promise.all(promises) is fulfilled
AllResolved(n) == \A c \in Children(n) : promise[c] = "resolved"

\* lines 282-284: every item's promise is resolved; the directory resolves to
\* the strings of its items, joined in the order of the listing.  When an
\* item's promise is rejected, Promise.all rejects, this then has no rejection
\* handler and the directory's promise is never settled.
Join(n) ==
    /\ ~crashed
    /\ phase[n] = "all"
    /\ AllResolved(n)
    /\ phase' = [phase EXCEPT ![n] = "end"]
    /\ promise' = [promise EXCEPT ![n] = "resolved"]
    /\ value' = [value EXCEPT ![n] =
                    ReduceStrings([i \in 1..Len(Listing[n]) |-> value[Listing[n][i]]],
                                  Len(Listing[n]))]
    /\ settled' = Append(settled, n)
    /\ UNCHANGED <<extractorVars, root, failed, crashed, ranAfterReject, proc, procValue, writeVars>>
    /\ UNCHANGED <<sinkVars, mainVars>>

\* lines 259-264: readInputPath resolved; the string is parsed and mapped.  A
\* syntax error thrown by createOutputMapFromString is caught by the catch.
ProcessThen ==
    /\ ~crashed
    /\ proc = "pending"
    /\ promise[root] = "resolved"
    /\ IF ParseThrows(value[root])
       THEN /\ Record(1, "createOutputMapFromString", value[root],
                      StartAcc(queryId[1], <<>>), TRUE)
            /\ proc' = "rejected"
            /\ UNCHANGED procValue
       ELSE \E rnd \in RandomChoices(1, NumDocs(value[root])) :
              LET acc == CreateOutputMap(hashType[1], StartAcc(queryId[1], rnd),
                                         value[root])
              IN  /\ Record(1, "createOutputMapFromString", value[root], acc, FALSE)
                  /\ proc' = "resolved"
                  /\ procValue' = acc.result
    /\ UNCHANGED <<hashType, root, traversalVars, crashed, ranAfterReject, writeVars>>
    /\ UNCHANGED <<sinkVars, mainVars>>

\* lines 262-264: readInputPath rejected
ProcessCatch ==
    /\ ~crashed
    /\ proc = "pending"
    /\ promise[root] = "rejected"
    /\ proc' = "rejected"
    /\ UNCHANGED <<extractorVars, root, traversalVars, crashed, ranAfterReject, procValue, writeVars>>
    /\ UNCHANGED <<sinkVars, mainVars>>

\* lines 439-440, 393-394: the OutputMap is there; writeOutputMap opens the file
WriteOutputMap ==
    /\ ~crashed
    /\ proc = "resolved"
    /\ wrPhase = "none"
    /\ wrPhase' = "open"
    /\ wrPromise' = "pending"
    /\ UNCHANGED <<extractorVars, root, traversalVars, crashed, ranAfterReject, proc, procValue, outFile>>
    /\ UNCHANGED <<sinkVars, mainVars>>

\* lines 394-398: the file is open; the write is issued
OpenDone ==
    /\ ~crashed
    /\ wrPhase = "open"
    /\ wrPhase' = "write"
    /\ UNCHANGED <<extractorVars, root, traversalVars, crashed, ranAfterReject, proc, procValue,
                   wrPromise, outFile>>
    /\ UNCHANGED <<sinkVars, mainVars>>

\* lines 394-398: the open fails.  reject(openErr) does not return, so fs.write
\* is called without a descriptor and throws out of the callback.
OpenFail ==
    /\ ~crashed
    /\ wrPhase = "open"
    /\ wrPhase' = "end"
    /\ wrPromise' = "rejected"
    /\ ranAfterReject' = ranAfterReject \cup {"fs.write"}
    /\ crashed' = TRUE
    /\ UNCHANGED <<extractorVars, root, traversalVars, proc, procValue, outFile>>
    /\ UNCHANGED <<sinkVars, mainVars>>

\* JSON.stringify(outputMap): the members of the object
Stringify(outputMap) == {<<k, outputMap[k]>> : k \in DOMAIN outputMap}

\* lines 398-402: the write is done
WriteDone ==
    /\ ~crashed
    /\ wrPhase = "write"
    /\ wrPhase' = "end"
    /\ wrPromise' = "resolved"
    /\ outFile' = <<Stringify(procValue)>>
    /\ UNCHANGED <<extractorVars, root, traversalVars, crashed, ranAfterReject, proc, procValue>>
    /\ UNCHANGED <<sinkVars, mainVars>>

\* lines 398-402: the write fails; the resolve() after reject() has no effect
WriteFail ==
    /\ ~crashed
    /\ wrPhase = "write"
    /\ wrPhase' = "end"
    /\ wrPromise' = "rejected"
    /\ UNCHANGED <<extractorVars, root, traversalVars, crashed, ranAfterReject, proc, procValue, outFile>>
    /\ UNCHANGED <<sinkVars, mainVars>>

(***************************************************************************)
(* pushToRedis, lines 408-433, and its call in extract, lines 444-448.     *)
(***************************************************************************)
RedisConfiguredAlways == TRUE

\* line 445: if (this.redisUrl)
RedisConfigured == redisUrl # ""

PushCompleteEarly == failedSets = {}

\* line 429: Promise.all(promises) is fulfilled when every set has succeeded
PushComplete == pendingSets = {} /\ failedSets = {}

\* lines 444-447 and 408-427: the reaction to the resolved write calls
\* pushToRedis when a redisUrl is configured.  The call inverts the OutputMap
\* and issues one set per entry of the inverted map before it first awaits.
PushToRedis ==
    /\ ~crashed
    /\ wrPromise = "resolved"
    /\ pushPhase = "none"
    /\ RedisConfigured
    /\ \E inverted \in Inversions(procValue) :
          /\ mapToPush' = inverted
          /\ pendingSets' = DOMAIN inverted
          /\ setCount' = setCount + Cardinality(DOMAIN inverted)
    /\ pushPhase' = "sets"
    /\ pushPromise' = "pending"
    /\ UNCHANGED <<extractorVars, root, traversalVars, crashed, ranAfterReject, proc, procValue,
                   writeVars>>
    /\ UNCHANGED <<redisUrl, failedSets, store, reported, quit, mainVars>>

\* line 426: the sink answers a set; the entry is stored
SetDone(id) ==
    /\ ~crashed
    /\ id \in pendingSets
    /\ pendingSets' = pendingSets \ {id}
    /\ store' = MapPut(store, id, mapToPush[id])
    /\ UNCHANGED <<extractorVars, root, traversalVars, crashed, ranAfterReject, proc, procValue,
                   writeVars>>
    /\ UNCHANGED <<redisUrl, pushPhase, pushPromise, mapToPush, failedSets, setCount, reported,
                   quit, mainVars>>

\* lines 426, 429: a set fails.  Promise.all rejects, the await throws and the
\* promise of pushToRedis, which extract does not keep, is rejected; the sets
\* still pending are not withdrawn.
SetFail(id) ==
    /\ ~crashed
    /\ id \in pendingSets
    /\ pendingSets' = pendingSets \ {id}
    /\ failedSets' = failedSets \cup {id}
    /\ pushPromise' = "rejected"
    /\ UNCHANGED <<extractorVars, root, traversalVars, crashed, ranAfterReject, proc, procValue,
                   writeVars>>
    /\ UNCHANGED <<redisUrl, pushPhase, mapToPush, store, setCount, reported, quit, mainVars>>

\* lines 429-433: every set has succeeded; success is logged and the client quit
PushResolved ==
    /\ ~crashed
    /\ pushPhase = "sets"
    /\ PushComplete
    /\ pushPhase' = "end"
    /\ pushPromise' = "resolved"
    /\ reported' = TRUE
    /\ quit' = TRUE
    /\ UNCHANGED <<extractorVars, root, traversalVars, crashed, ranAfterReject, proc, procValue,
                   writeVars>>
    /\ UNCHANGED <<redisUrl, mapToPush, pendingSets, failedSets, store, setCount, mainVars>>

\* lines 416-419: the client reports an error; the handler throws it
ClientError ==
    /\ ~crashed
    /\ pushPhase = "sets"
    /\ crashed' = TRUE
    /\ UNCHANGED <<extractorVars, root, traversalVars, ranAfterReject, proc, procValue, writeVars>>
    /\ UNCHANGED <<sinkVars, mainVars>>

(***************************************************************************)
(* The operations of an extractor.                                         *)
(***************************************************************************)
\* new ExtractGQL(options): lines 70 and 133-151
InitExtractors ==
    /\ queryId = [e \in Extractors |-> 0]
    /\ issued = [e \in Extractors |-> <<>>]
    /\ runs = [e \in Extractors |-> <<>>]
    /\ keyed = <<>>

CreateMapFromDocument(e, document) ==
    /\ \E rnd \in RandomChoices(e, NumOps(document)) :
          Record(e, "createMapFromDocument", document,
                 CreateMap(hashType[e], StartAcc(queryId[e], rnd), document), FALSE)
    /\ UNCHANGED <<hashType, ioVars>>

CreateOutputMapFromString(e, docString) ==
    /\ IF ParseThrows(docString)
       THEN Record(e, "createOutputMapFromString", docString,
                   StartAcc(queryId[e], <<>>), TRUE)
       ELSE \E rnd \in RandomChoices(e, NumDocs(docString)) :
              Record(e, "createOutputMapFromString", docString,
                     CreateOutputMap(hashType[e], StartAcc(queryId[e], rnd), docString),
                     FALSE)
    /\ UNCHANGED <<hashType, ioVars>>

(***************************************************************************)
(* SpecFrag: one createMapFromDocument call of a default extractor on any  *)
(* document of at most MaxDefs definitions.                                *)
(***************************************************************************)
InitFrag ==
    /\ InitExtractors
    /\ InitIdle
    /\ root = 1
    /\ redisUrl = ""
    /\ hashType = [e \in Extractors |-> "sequential"]

NextFrag ==
    /\ runs[1] = <<>>
    /\ \E document \in Docs : CreateMapFromDocument(1, document)

SpecFrag == InitFrag /\ [][NextFrag]_vars

(***************************************************************************)
(* SpecSeq: one extractor of any strategy, called again and again on       *)
(* documents of one or two operations.                                     *)
(***************************************************************************)
SeqOps == {OpDef(n, {}) : n \in SeqOpNames}
SeqDocs == {<<a>> : a \in SeqOps} \cup {<<a, b>> : a \in SeqOps, b \in SeqOps}

InitSeq ==
    /\ InitExtractors
    /\ InitIdle
    /\ root = 1
    /\ redisUrl = ""
    /\ hashType \in [Extractors -> HASH_TYPES]
    /\ hashType[2] = "sequential"

NextSeq ==
    /\ Len(issued[1]) < MaxEncounters
    /\ \E document \in SeqDocs :
          /\ Len(issued[1]) + NumOps(document) <= MaxEncounters
          /\ CreateMapFromDocument(1, document)

SpecSeq == InitSeq /\ [][NextSeq]_vars

(***************************************************************************)
(* SpecRuns: two extractors, each running createOutputMapFromString on a   *)
(* few texts.                                                              *)
(***************************************************************************)
RunTexts ==
    { <<<<"op", "Q1", {}>>>>,
      <<<<"op", "Q1", {"F1"}>>, WS, <<"frag", "F1", {}>>, <<"op", "Q2", {}>>>>,
      <<WS>> }

InitRuns ==
    /\ InitExtractors
    /\ InitIdle
    /\ root = 1
    /\ redisUrl = ""
    /\ hashType \in [Extractors -> HASH_TYPES]

NextRuns ==
    \E e \in Extractors :
        /\ Len(runs[e]) < MaxRuns
        /\ \E docString \in RunTexts : CreateOutputMapFromString(e, docString)

SpecRuns == InitRuns /\ [][NextRuns]_vars

(***************************************************************************)
(* SpecMix: one sequential extractor, createMapFromDocument and            *)
(* createOutputMapFromString called in any order.                          *)
(***************************************************************************)
InitMix ==
    /\ InitExtractors
    /\ InitIdle
    /\ root = 1
    /\ redisUrl = ""
    /\ hashType = [e \in Extractors |-> "sequential"]

NextMix ==
    /\ Len(runs[1]) < MaxRuns
    /\ \/ \E document \in SeqDocs : CreateMapFromDocument(1, document)
       \/ \E docString \in RunTexts : CreateOutputMapFromString(1, docString)

SpecMix == InitMix /\ [][NextMix]_vars

(***************************************************************************)
(* SpecIO: one extract() of extractor 1 over the input tree, every stat,   *)
(* listing, read, open and write free to fail.                             *)
(***************************************************************************)
InitIO ==
    /\ InitExtractors
    /\ InitIdle
    /\ hashType \in [Extractors -> HASH_TYPES]
    /\ hashType[2] = "sequential"

IOSteps ==
    \/ \E n \in Nodes : StatDone(n)
    \/ \E n \in Nodes : StatFail(n)
    \/ \E n \in Nodes : ReaddirDone(n)
    \/ \E n \in Nodes : ReaddirFail(n)
    \/ \E n \in Nodes : ReadDone(n)
    \/ \E n \in Nodes : ReadFail(n)
    \/ \E n \in DOMAIN Listing : Join(n)
    \/ ProcessThen
    \/ ProcessCatch
    \/ WriteOutputMap
    \/ OpenDone
    \/ OpenFail
    \/ WriteDone
    \/ WriteFail
    \/ PushToRedis
    \/ \E id \in pendingSets : SetDone(id)
    \/ \E id \in pendingSets : SetFail(id)
    \/ PushResolved
    \/ ClientError

NextIO ==
    \/ Extract
    \/ IOSteps

SpecIO == InitIO /\ [][NextIO]_vars

(***************************************************************************)
(* SpecMain: an extraction over the directory sub or the file a.graphql,   *)
(* started by main or by a caller of the constructor, with any request for *)
(* a strategy.                                                             *)
(***************************************************************************)
\* what a caller may pass as the strategy: a member of HASH_TYPES, a name
\* that is none, the empty string, or nothing
HashRequests == HASH_TYPES \cup {"crc32", "", Absent}

\* the truthiness of a request, as line 512 tests it
Truthy(h) == h \notin {"", Absent}

\* lines 138, 147: the hashType of the constructed extractor; the default
\* replaces an option that is undefined and nothing else
ConstructedHashType(option) == IF option = Absent THEN "sequential" ELSE option

\* lines 512-520, 530: main with --hash h.  A truthy h outside HASH_TYPES
\* exits; any other h constructs the extractor, a falsy one without the
\* option, and starts the extraction.
Main(h) ==
    /\ ~crashed
    /\ caller = "none"
    /\ proc = "none"
    /\ caller' = "main"
    /\ requested' = h
    /\ IF Truthy(h) /\ h \notin HASH_TYPES
       THEN /\ exited' = TRUE
            /\ UNCHANGED <<hashType, proc, phase, promise>>
       ELSE /\ hashType' = [hashType EXCEPT
                               ![1] = ConstructedHashType(IF Truthy(h) THEN h ELSE Absent)]
            /\ StartExtract
            /\ UNCHANGED exited
    /\ UNCHANGED <<queryId, issued, runs, keyed, root, value, failed, settled, crashed,
                   ranAfterReject, procValue, writeVars, sinkVars>>

\* lines 133-151, 437-438: new ExtractGQL({hashType: h}).extract(); the
\* constructor stores what it is given
NewExtractGQL(h) ==
    /\ ~crashed
    /\ caller = "none"
    /\ proc = "none"
    /\ caller' = "api"
    /\ requested' = h
    /\ hashType' = [hashType EXCEPT ![1] = ConstructedHashType(h)]
    /\ StartExtract
    /\ UNCHANGED <<queryId, issued, runs, keyed, root, value, failed, settled, crashed,
                   ranAfterReject, procValue, writeVars, sinkVars, exited>>

InitMain ==
    /\ InitExtractors
    /\ InitIdle
    /\ root \in {2, 3}
    /\ hashType = [e \in Extractors |-> "sequential"]

NextMain ==
    \/ \E h \in HashRequests : Main(h)
    \/ \E h \in HashRequests : NewExtractGQL(h)
    \/ IOSteps

SpecMain == InitMain /\ [][NextMain]_vars

(***************************************************************************)
(* Properties of fragment resolution (SpecFrag).                           *)
(***************************************************************************)
\* a set of fragment names closed under the spreads of their definitions
SpreadClosed(document, names) ==
    \A f \in names : SpreadsOf(document, f) \subseteq names

\* the transitive spread closure of a selection set: the least closed superset
SpreadClosure(document, roots) ==
    CHOOSE S \in SUBSET FragNameSet :
        /\ roots \subseteq S /\ SpreadClosed(document, S)
        /\ \A T \in SUBSET FragNameSet :
              (roots \subseteq T /\ SpreadClosed(document, T)) => S \subseteq T

DefinedIn(document, names) == {f \in names : HasDefinition(document, f)}

\* the fragment names of a keyed document, the operation left out
FragmentNamesOf(doc) == {doc[i].name : i \in 2..Len(doc)}

\* document[p] is the first fragment definition of its name
IsFirstOccurrence(document, p) ==
    /\ IsFragmentDefinition(document[p])
    /\ \A q \in 1..(p - 1) :
          ~(IsFragmentDefinition(document[q]) /\ document[q].name = document[p].name)

\* some fragment of the closure spreads, directly or not, itself
HasCycle(document, closure) ==
    \E f \in closure : f \in SpreadClosure(document, SpreadsOf(document, f))

\* C8: when the spread closure of an operation contains a cycle, fragment
\* resolution ends after at most one pass per name of the closure, and the
\* keyed document holds each defined fragment of the closure exactly once and
\* no other fragment.
C8_CycleTermination ==
    \A n \in 1..Len(keyed) :
        LET closure == SpreadClosure(keyed[n].from, keyed[n].op.spreads)
        IN  HasCycle(keyed[n].from, closure) =>
              /\ keyed[n].passes <= Cardinality(closure)
              /\ FragmentNamesOf(keyed[n].doc) = DefinedIn(keyed[n].from, closure)
              /\ Len(keyed[n].doc) - 1 = Cardinality(DefinedIn(keyed[n].from, closure))

\* the operation spreads F1, F1 spreads F2, F2 spreads F1: F1 and F2, once each
C8_Witness ==
    /\ Len(keyed) = 1
    /\ keyed[1].from = <<OpDef("Q1", {"F1"}), FragDef("F1", {"F2"}), FragDef("F2", {"F1"})>>
    /\ keyed[1].doc = <<OpDef("Q1", {"F1"}), FragDef("F1", {"F2"}), FragDef("F2", {"F1"})>>

\* C9: the keyed document is the operation followed by exactly the defined
\* fragments of its transitive spread closure, one definition per name (the
\* first of the document), in ascending order of name.
C9_KeyedDocument ==
    \A n \in 1..Len(keyed) :
        LET from == keyed[n].from
            doc == keyed[n].doc
            closure == SpreadClosure(from, keyed[n].op.spreads)
        IN  /\ Len(doc) >= 1 /\ doc[1] = keyed[n].op
            /\ \A i \in 2..Len(doc) :
                  /\ doc[i].name \in closure
                  /\ \E p \in 1..Len(from) :
                        from[p] = doc[i] /\ IsFirstOccurrence(from, p)
            /\ \A i \in 2..Len(doc) : \A j \in (i + 1)..Len(doc) :
                  NameRank(doc[i].name) < NameRank(doc[j].name)
            /\ FragmentNamesOf(doc) = DefinedIn(from, closure)

\* the closure is defined in the order F2, F1 and keyed in the order F1, F2
C9_Witness ==
    /\ Len(keyed) = 1
    /\ keyed[1].from = <<FragDef("F2", {"F1"}), FragDef("F1", {}), OpDef("Q1", {"F2"})>>
    /\ keyed[1].doc = <<OpDef("Q1", {"F2"}), FragDef("F1", {}), FragDef("F2", {"F1"})>>

\* C10: when the closure of an operation holds a name without a definition,
\* the call does not throw, the operation gets its entry in the OutputMap, and
\* the keyed document holds the defined fragments of the closure and not the
\* undefined one.
C10_SilentOmission ==
    \A n \in 1..Len(keyed) :
        LET from == keyed[n].from
            closure == SpreadClosure(from, keyed[n].op.spreads)
        IN  (closure \ DefinedIn(from, closure) # {}) =>
              /\ Len(runs[1]) = 1 /\ ~runs[1][1].threw
              /\ GetQueryDocumentKey(keyed[n].doc) \in DOMAIN runs[1][1].out
              /\ FragmentNamesOf(keyed[n].doc) = DefinedIn(from, closure)
              /\ \A i \in 2..Len(keyed[n].doc) : HasDefinition(from, keyed[n].doc[i].name)

\* the operation spreads F1, F1 spreads the undefined F3
C10_Witness ==
    /\ Len(keyed) = 1
    /\ keyed[1].from = <<OpDef("Q1", {"F1"}), FragDef("F1", {"F3"})>>
    /\ keyed[1].doc = <<OpDef("Q1", {"F1"}), FragDef("F1", {"F3"})>>
    /\ DOMAIN runs[1][1].out = {GetQueryDocumentKey(keyed[1].doc)}

(***************************************************************************)
(* Properties of identifier assignment (SpecSeq).                          *)
(***************************************************************************)
KeysOf(history) == {history[i].key : i \in 1..Len(history)}

\* the rank of the first encounter of the key of encounter i
FirstEncounterRank(history, i) ==
    LET first == CHOOSE a \in 1..i :
                    /\ history[a].key = history[i].key
                    /\ \A b \in 1..(a - 1) : history[b].key # history[i].key
    IN  Cardinality({history[b].key : b \in 1..first})

IsRun(e, i) ==
    /\ i \in 1..Len(runs[e])
    /\ runs[e][i].op = "createOutputMapFromString"
    /\ ~runs[e][i].threw

\* C7 as stated: under sequential, two runs over the same input yield the same
\* OutputMap, on two extractors or on one extractor twice.
C7_RunsAgree ==
    \A e1 \in Extractors : \A e2 \in Extractors :
        (hashType[e1] = "sequential" /\ hashType[e2] = "sequential") =>
            \A i \in 1..MaxRuns : \A j \in 1..MaxRuns :
                (IsRun(e1, i) /\ IsRun(e2, j) /\ runs[e1][i].in = runs[e2][j].in)
                    => runs[e1][i].out = runs[e2][j].out

\* C7, amended: under sequential the first runs of two extractors over the
\* same input yield the same OutputMap; a later run of one extractor over the
\* input of an earlier run yields the same keys with greater identifiers.
C7_FreshRunsAgree ==
    /\ \A e1 \in Extractors : \A e2 \in Extractors :
          (hashType[e1] = "sequential" /\ hashType[e2] = "sequential"
              /\ IsRun(e1, 1) /\ IsRun(e2, 1) /\ runs[e1][1].in = runs[e2][1].in)
                => runs[e1][1].out = runs[e2][1].out
    /\ \A e \in Extractors :
          hashType[e] = "sequential" =>
              \A i \in 1..Len(runs[e]) : \A j \in (i + 1)..Len(runs[e]) :
                  (IsRun(e, i) /\ IsRun(e, j) /\ runs[e][i].in = runs[e][j].in) =>
                      /\ DOMAIN runs[e][j].out = DOMAIN runs[e][i].out
                      /\ \A k \in DOMAIN runs[e][i].out :
                            runs[e][j].out[k] > runs[e][i].out[k]

\* both extractors ran the same two-operation text first, and extractor 1 ran
\* it a second time
C7_Witness ==
    /\ hashType[1] = "sequential" /\ hashType[2] = "sequential"
    /\ IsRun(1, 1) /\ IsRun(1, 2) /\ IsRun(2, 1)
    /\ runs[1][1].in = runs[2][1].in
    /\ runs[1][1].in = runs[1][2].in
    /\ Cardinality(DOMAIN runs[1][1].out) = 2

(***************************************************************************)
(* Properties of the traversal (SpecIO).                                   *)
(***************************************************************************)
RECURSIVE Subtree(_)
Subtree(n) ==
    IF IsDir(n) THEN {n} \cup UNION {Subtree(c) : c \in Children(n)} ELSE {n}

\* a stat, a listing or a read is outstanding
Outstanding == {n \in Nodes : phase[n] \in {"stat", "readdir", "read"}}

\* no callback is outstanding and no promise reaction is left to run
Quiet ==
    /\ Outstanding = {}
    /\ wrPhase \notin {"open", "write"}
    /\ \A n \in DOMAIN Listing : ~(phase[n] = "all" /\ AllResolved(n))
    /\ ~(proc = "pending" /\ promise[root] \in {"resolved", "rejected"})
    /\ ~(proc = "resolved" /\ wrPhase = "none")

Before(a, b) ==
    \E i \in 1..Len(settled) : \E j \in (i + 1)..Len(settled) :
        settled[i] = a /\ settled[j] = b

\* C3: once the run has nothing left to do, a failure of a stat, a listing or a
\* read below the input root has rejected the promise of readInputPath for the
\* root and that of processInputPath.
C3_FailFast ==
    (proc # "none" /\ Quiet /\ failed # {}) =>
        (promise[root] = "rejected" /\ proc = "rejected")

\* C4: when a stat, a listing or a read has failed, no readInputPath promise
\* above the failed entry is resolved, createOutputMapFromString has not been
\* called and writeOutputMap has neither been called nor written a file.
C4_NoPartialOutput ==
    failed # {} =>
        /\ \A n \in Nodes : (Subtree(n) \cap failed # {}) => promise[n] # "resolved"
        /\ runs[1] = <<>> /\ issued[1] = <<>>
        /\ proc # "resolved"
        /\ wrPhase = "none" /\ outFile = <<>>

\* the read of a.graphql failed after the directory sub had been joined
C4_Witness ==
    /\ root = 1
    /\ failed = {3}
    /\ promise[2] = "resolved" /\ promise[4] = "resolved"
    /\ Quiet

RECURSIVE Expected(_), ExpectedOfItems(_, _)
\* the text of a node: depth first, in the order of the listings
Expected(n) ==
    IF IsDir(n) THEN ExpectedOfItems(Listing[n], 1)
    ELSE IF GetFileExtension(BaseName[n]) = Extension THEN Content[n] ELSE <<>>
ExpectedOfItems(items, i) ==
    IF i > Len(items) THEN <<>>
    ELSE Expected(items[i]) \o ExpectedOfItems(items, i + 1)

\* C5: whatever the order in which the reads complete, a resolved readInputPath
\* promise holds the texts of the node's files, depth first in listing order.
C5_OrderPreservingJoin ==
    \A n \in Nodes : promise[n] = "resolved" => value[n] = Expected(n)

\* the root is joined although a.graphql and c.graphql were read before
\* b.graphql, which comes first in listing order
C5_Witness ==
    /\ root = 1
    /\ promise[1] = "resolved"
    /\ Before(3, 5) /\ Before(6, 5)

\* C6: getQueryId is called, and the counter and the OutputMap change, only
\* when no stat, listing or read of the traversal is outstanding.
C6_AssignAfterIO ==
    (issued[1] # <<>> \/ runs[1] # <<>> \/ queryId[1] # 0 \/ proc = "resolved")
        => Outstanding = {}

\* identifiers have been assigned after the whole tree was read
C6_Witness ==
    /\ root = 1
    /\ Len(issued[1]) = 2
    /\ \A n \in Nodes : phase[n] = "end"

(***************************************************************************)
(* Properties of the digest strategies (SpecRuns).                         *)
(***************************************************************************)
DigestTypes == {"md5", "sha1", "sha256"}

\* C11: under md5, sha1 and sha256 two extractors of the same strategy give a
\* key the same identifier at every encounter, whatever they were called on
\* before; runs over the same input return the same OutputMap; and the
\* counter queryId stays as constructed.
C11_HashDeterminism ==
    \A e1 \in Extractors : \A e2 \in Extractors :
        (hashType[e1] \in DigestTypes /\ hashType[e2] = hashType[e1]) =>
            /\ queryId[e1] = 0
            /\ \A i \in 1..Len(issued[e1]) : \A j \in 1..Len(issued[e2]) :
                  issued[e1][i].key = issued[e2][j].key
                      => issued[e1][i].id = issued[e2][j].id
            /\ \A i \in 1..Len(runs[e1]) : \A j \in 1..Len(runs[e2]) :
                  (IsRun(e1, i) /\ IsRun(e2, j) /\ runs[e1][i].in = runs[e2][j].in)
                      => runs[e1][i].out = runs[e2][j].out

\* two md5 extractors ran the same text, the second one after another text
C11_Witness ==
    /\ hashType[1] = "md5" /\ hashType[2] = "md5"
    /\ IsRun(1, 1) /\ IsRun(2, 1) /\ IsRun(2, 2)
    /\ runs[1][1].in = runs[2][2].in
    /\ runs[2][1].in # runs[2][2].in
    /\ Cardinality(DOMAIN runs[1][1].out) = 2
    /\ runs[1][1].out = runs[2][2].out

(***************************************************************************)
(* Properties of the sequential identifiers of one OutputMap (SpecMix).    *)
(***************************************************************************)
\* C15: under sequential, distinct keys of an OutputMap a call returned carry
\* distinct identifiers, and the inverted map has as many entries as the map.
C15_SequentialInjective ==
    \A i \in 1..Len(runs[1]) :
        LET out == runs[1][i].out
        IN  /\ \A k1 \in DOMAIN out : \A k2 \in DOMAIN out :
                  k1 # k2 => out[k1] # out[k2]
            /\ \A inverted \in Inversions(out) :
                  Cardinality(DOMAIN inverted) = Cardinality(DOMAIN out)

\* a map of two keys, returned by the second call on the extractor
C15_Witness ==
    /\ Len(runs[1]) = 2
    /\ runs[1][1].op = "createMapFromDocument"
    /\ runs[1][2].op = "createOutputMapFromString"
    /\ Cardinality(DOMAIN runs[1][2].out) = 2
    /\ \E inverted \in Inversions(runs[1][2].out) : Cardinality(DOMAIN inverted) = 2

(***************************************************************************)
(* Properties of readInputFile (SpecIO).                                   *)
(***************************************************************************)
\* the files whose name does not end in a dot and the configured extension
MismatchedFiles ==
    {n \in Nodes : /\ ~IsDir(n)
                    /\ \/ Len(BaseName[n]) < 2
                       \/ BaseName[n][Len(BaseName[n])] # Extension}

\* the tokens of the files of another extension
MismatchedTokens ==
    UNION {{Content[n][i] : i \in 1..Len(Content[n])} : n \in MismatchedFiles} \ {WS}

\* C14: a file of another extension is never read and its promise is never
\* rejected; once its stat has succeeded the promise is resolved to the empty
\* text, and no resolved text holds a token of such a file.  A file promise is
\* rejected only after a failed stat or read of a file of the configured
\* extension.
C14_ExtensionMismatch ==
    /\ \A n \in MismatchedFiles :
          /\ phase[n] # "read"
          /\ promise[n] # "rejected"
          /\ promise[n] = "resolved" => value[n] = <<>>
          /\ (phase[n] = "end" /\ n \notin failed) => promise[n] = "resolved"
    /\ \A n \in Nodes : promise[n] = "resolved" =>
          \A i \in 1..Len(value[n]) : value[n][i] \notin MismatchedTokens
    /\ \A n \in Nodes : (~IsDir(n) /\ promise[n] = "rejected") =>
          (n \in failed /\ n \notin MismatchedFiles)

\* the whole tree was joined: notes.txt and the file named graphql gave the
\* empty text
C14_Witness ==
    /\ root = 1
    /\ promise[1] = "resolved"
    /\ promise[4] = "resolved" /\ value[4] = <<>>
    /\ promise[7] = "resolved" /\ value[7] = <<>>

(***************************************************************************)
(* Properties of the push to the key-value sink (SpecIO).                  *)
(***************************************************************************)
\* what holds of a push whatever the identifiers: success is logged and the
\* client quit only after every set has succeeded, and the sink holds the
\* entries of the sets that succeeded, a failure of another set or not
PushOutcome ==
    /\ reported => (pendingSets = {} /\ failedSets = {} /\ store = mapToPush)
    /\ quit <=> reported
    /\ failedSets # {} => (~reported /\ pushPromise = "rejected")
    /\ DOMAIN store = DOMAIN mapToPush \ (pendingSets \cup failedSets)
    /\ \A id \in DOMAIN store : store[id] = mapToPush[id]

\* C12 as stated: pushToRedis issues one set per entry of the OutputMap
C12_OneSetPerEntry ==
    pushPhase # "none" =>
        /\ setCount = Cardinality(DOMAIN procValue)
        /\ PushOutcome

\* C12: pushToRedis issues one set per identifier of the OutputMap, keyed by
\* the identifier and valued by a key that carries it: one per entry when
\* no two keys share an identifier.  Success is logged and the client quit
\* only after every set has succeeded; after a failed set success is never
\* logged, and the entries already stored stay.
C12_OneSetPerIdentifier ==
    pushPhase # "none" =>
        /\ setCount = Cardinality(Identifiers(procValue))
        /\ DOMAIN mapToPush = Identifiers(procValue)
        /\ \A id \in DOMAIN mapToPush :
              mapToPush[id] \in DOMAIN procValue /\ procValue[mapToPush[id]] = id
        /\ (Cardinality(Identifiers(procValue)) = Cardinality(DOMAIN procValue))
              => setCount = Cardinality(DOMAIN procValue)
        /\ PushOutcome

\* both entries of the tree's OutputMap were stored and success was logged
C12_Witness ==
    /\ root = 1
    /\ Cardinality(DOMAIN procValue) = 2
    /\ Cardinality(DOMAIN store) = 2
    /\ reported /\ quit

\* C16: a set is issued to the sink only when a redisUrl is configured and
\* writeOutputMap has resolved, hence only after the traversal and the write
\* succeeded: never after processInputPath or the write has rejected.
C16_WriteThenPush ==
    (pushPhase # "none" \/ setCount > 0 \/ DOMAIN store # {}) =>
        /\ redisUrl # ""
        /\ wrPromise = "resolved" /\ outFile # <<>>
        /\ proc = "resolved"
        /\ failed = {}

\* the sets of the tree's two entries have been issued after the write
C16_Witness ==
    /\ root = 1
    /\ wrPromise = "resolved"
    /\ pushPhase = "sets"
    /\ Cardinality(pendingSets) = 2

(***************************************************************************)
(* Properties of the error paths (SpecIO).                                 *)
(***************************************************************************)
\* C17: after a failed open writeOutputMap rejects and makes no write on the
\* descriptor, and after a failed listing readInputPath rejects and does not
\* iterate the listing: no step of the success path runs after the rejection.
C17_StopAfterReject ==
    /\ ranAfterReject = {}
    /\ (wrPromise = "rejected" /\ outFile = <<>>) => ~crashed
    /\ \A n \in DOMAIN Listing : promise[n] = "rejected" => ~crashed

(***************************************************************************)
(* Properties of the strategy request (SpecMain).                          *)
(***************************************************************************)
\* a request that names no strategy of HASH_TYPES
UnknownStrategy(h) == h # Absent /\ h \notin HASH_TYPES

\* C13: a request for a strategy outside HASH_TYPES is rejected before any
\* work: no stat, listing or read is made, no identifier is assigned, no
\* output is written, and nothing is pushed.
C13_UnknownStrategyRejected ==
    (caller # "none" /\ UnknownStrategy(requested)) =>
        /\ exited
        /\ proc = "none"
        /\ \A n \in Nodes : phase[n] = "idle"
        /\ issued[1] = <<>> /\ queryId[1] = 0
        /\ wrPhase = "none" /\ outFile = <<>>
        /\ pushPhase = "none"

====
